---- MODULE Spec2Model ----
(***************************************************************************)
(* Restaurant booking system: the record store (users, tables, bookings)   *)
(* and the backend operations of backend.py that read and write it, with   *)
(* the booking admission rule (check_table_availability, create_booking).  *)
(*                                                                         *)
(* Dates are day numbers and times whole hours of the day; a timestamp is  *)
(* the number of hours date * 24 + time.  Every backend call opens its own *)
(* connection, so every SQL statement is one atomic step on the store.     *)
(* Store faults are injected into the write transaction of create_booking; *)
(* reads are assumed to reach the store.  A rejected INSERT does not       *)
(* advance the id counter here; PostgreSQL skips the value, which only     *)
(* changes which fresh id the next row gets.  now is the clock that       *)
(* CURRENT_TIMESTAMP and datetime.now() read.                              *)
(*                                                                         *)
(* The connection level models the control flow of the same functions      *)
(* (connect, try, get_cursor, finally, disconnect, calls of one another)   *)
(* over a stack of frames, with the outcome of each test and the faults    *)
(* of connect, of a statement and of commit as inputs; rollback and        *)
(* cursor.close are taken to succeed.                                      *)
(***************************************************************************)
EXTENDS Integers, Sequences, FiniteSets, TLC

VARIABLES users, tables, bookings, nextUserId, nextTableId, nextBookingId,
          duration, last, pc, req, now,
          stack, conns, schema, migrations, run

vars == <<users, tables, bookings, nextUserId, nextTableId, nextBookingId,
          duration, last, pc, req, now,
          stack, conns, schema, migrations, run>>

store == <<users, tables, bookings, nextUserId, nextTableId, nextBookingId,
           duration>>

(* The connection level: the frames of the call in progress, the number of
   open store connections, the relations that exist, whether a
   migrations.sql file is present, and the record of the top-level call *)
driver == <<stack, conns, schema, migrations, run>>

(* What no backend call of the record level writes: the clock and the
   connection level *)
rest == <<now, driver>>

----------------------------------------------------------------------------
(* Bounds of the model *)

MaxUsers == 2
MaxTables == 2
MaxBookings == 2
MaxDate == 2
MaxOffset == 2
MaxDuration == 3

(* Input domains *)

TableNumbers == {"T1", "T2"}
Dates == 1..MaxDate
Times == 18..(18 + MaxOffset)
Durations == 1..MaxDuration
BookingStatuses == {"pending", "confirmed", "cancelled", "completed"}
Faults == {"none", "fetch", "commit"}
Callers == {"c1", "c2"}

(* notes as passed by a caller: None, a str (a sequence of characters), or
   a value of another type *)
NotesNone == [kind |-> "none", text |-> <<>>]
NotesStr(s) == [kind |-> "str", text |-> s]
NotesOther == [kind |-> "other", text |-> <<>>]

----------------------------------------------------------------------------
(* Pure helpers *)

Ids(rows) == {r.id : r \in rows}

NoTable ==
    [id |-> 0, table_number |-> "", capacity |-> 0, is_available |-> FALSE,
     created_at |-> 0, updated_at |-> 0]

(* backend.get_table_by_id: the row with that id, or None (NoTable) *)
get_table_by_id(tbls, table_id) ==
    IF \E t \in tbls : t.id = table_id
    THEN CHOOSE t \in tbls : t.id = table_id
    ELSE NoTable

(* datetime.combine(booking_date, booking_time), in hours *)
combine(d, t) == d * 24 + t

IsSpace(c) == c \in {" ", "\t", "\n"}

RECURSIVE lstrip(_)
lstrip(s) == IF s # <<>> /\ IsSpace(Head(s)) THEN lstrip(Tail(s)) ELSE s

RECURSIVE rstrip(_)
rstrip(s) ==
    IF s # <<>> /\ IsSpace(s[Len(s)]) THEN rstrip(SubSeq(s, 1, Len(s) - 1)) ELSE s

(* str.strip() *)
strip(s) == rstrip(lstrip(s))

(* the variant does not trim a string *)
normalize_notes_no_strip(notes) ==
    IF notes.kind = "none" THEN <<>>
    ELSE IF notes.kind = "str" THEN notes.text ELSE <<>>

(* create_booking / update_booking: notes is always a str, never None *)
normalize_notes(notes) ==
    IF notes.kind = "none" THEN <<>>
    ELSE IF notes.kind = "str" THEN strip(notes.text) ELSE <<>>

----------------------------------------------------------------------------
(* The record of the last backend call: its arguments (keys is the set of
   keyword arguments of an update_* call), how it ended (a returned value or
   the error raised) and what the error names.  returned is the Booking that
   create_booking returned, before the row that update_booking or
   delete_booking found under the id. *)

NoBooking ==
    [id |-> 0, user_id |-> 0, table_id |-> 0, booking_date |-> 0, booking_time |-> 0,
     guests_count |-> 0, status |-> "", notes |-> <<>>,
     created_at |-> 0, updated_at |-> 0]

NoNamed == [table_number |-> "", table_id |-> 0, booking_date |-> 0, booking_time |-> 0]

NoCall ==
    [op |-> "none", user_id |-> 0, table_id |-> 0, booking_date |-> 0,
     booking_time |-> 0, duration_hours |-> 0, status |-> "", outcome |-> "",
     queried |-> FALSE, id |-> 0, named |-> NoNamed, fault |-> "none",
     guests_count |-> 0, notes |-> NotesNone, keys |-> {},
     username |-> "", email |-> "", table_number |-> "",
     returned |-> NoBooking, before |-> NoBooking]

Call(op, outcome) == [NoCall EXCEPT !.op = op, !.outcome = outcome]

----------------------------------------------------------------------------
(* PostgreSQLDriver.get_cursor: what a transaction persists.  written is
   what the statements of the block wrote, block_raises whether the block
   raised, commit the commit argument, commit_raises whether commit() raised.
   An exception rolls the transaction back. *)

get_cursor_autocommit(written, block_raises, commit, commit_raises) ==
    written

get_cursor_no_commit(written, block_raises, commit, commit_raises) ==
    {}

get_cursor(written, block_raises, commit, commit_raises) ==
    IF block_raises THEN {}
    ELSE IF commit /\ ~commit_raises THEN written
    ELSE {}

----------------------------------------------------------------------------
(* The overlap query of check_table_availability: the stored bookings of
   that table and date, not cancelled, whose start is before the candidate's
   end and whose start + INTERVAL '2 hours' is after the candidate's start. *)

conflicting_bookings_any_status(bks, table_id, booking_date, end_datetime, start_datetime) ==
    {b \in bks :
        /\ b.table_id = table_id
        /\ b.booking_date = booking_date
        /\ combine(b.booking_date, b.booking_time) < end_datetime
        /\ combine(b.booking_date, b.booking_time) + 2 > start_datetime}

(* the variant does not compare the dates *)
conflicting_bookings_any_date(bks, table_id, booking_date, end_datetime, start_datetime) ==
    {b \in bks :
        /\ b.table_id = table_id
        /\ b.status # "cancelled"
        /\ combine(b.booking_date, b.booking_time) < end_datetime
        /\ combine(b.booking_date, b.booking_time) + 2 > start_datetime}

(* the variant gives a stored booking a window of one hour *)
conflicting_bookings_one_hour(bks, table_id, booking_date, end_datetime, start_datetime) ==
    {b \in bks :
        /\ b.table_id = table_id
        /\ b.booking_date = booking_date
        /\ b.status # "cancelled"
        /\ combine(b.booking_date, b.booking_time) < end_datetime
        /\ combine(b.booking_date, b.booking_time) + 1 > start_datetime}

(* the variant compares with <= and >= *)
conflicting_bookings_inclusive(bks, table_id, booking_date, end_datetime, start_datetime) ==
    {b \in bks :
        /\ b.table_id = table_id
        /\ b.booking_date = booking_date
        /\ b.status # "cancelled"
        /\ combine(b.booking_date, b.booking_time) <= end_datetime
        /\ combine(b.booking_date, b.booking_time) + 2 >= start_datetime}

(* the variant binds the two timestamps in the wrong order *)
conflicting_bookings_swapped(bks, table_id, booking_date, end_datetime, start_datetime) ==
    {b \in bks :
        /\ b.table_id = table_id
        /\ b.booking_date = booking_date
        /\ b.status # "cancelled"
        /\ combine(b.booking_date, b.booking_time) < start_datetime
        /\ combine(b.booking_date, b.booking_time) + 2 > end_datetime}

conflicting_bookings(bks, table_id, booking_date, end_datetime, start_datetime) ==
    {b \in bks :
        /\ b.table_id = table_id
        /\ b.booking_date = booking_date
        /\ b.status # "cancelled"
        /\ combine(b.booking_date, b.booking_time) < end_datetime
        /\ combine(b.booking_date, b.booking_time) + 2 > start_datetime}

(* the variant does not test that the table exists *)
check_table_availability_no_table_test(tbls, bks, table_id, booking_date, booking_time, duration_hours) ==
    LET table == get_table_by_id(tbls, table_id)
        start_datetime == combine(booking_date, booking_time)
        end_datetime == start_datetime + duration_hours
        count == Cardinality(conflicting_bookings(bks, table_id, booking_date,
                                                  end_datetime, start_datetime))
    IN  IF table # NoTable /\ ~table.is_available
        THEN [outcome |-> "Unavailable", queried |-> FALSE,
              named |-> [NoNamed EXCEPT !.table_number = table.table_number]]
        ELSE [outcome |-> IF count = 0 THEN "true" ELSE "false",
              queried |-> TRUE, named |-> NoNamed]

(* the variant does not test the availability flag *)
check_table_availability_no_flag_test(tbls, bks, table_id, booking_date, booking_time, duration_hours) ==
    LET table == get_table_by_id(tbls, table_id)
        start_datetime == combine(booking_date, booking_time)
        end_datetime == start_datetime + duration_hours
        count == Cardinality(conflicting_bookings(bks, table_id, booking_date,
                                                  end_datetime, start_datetime))
    IN  IF table = NoTable
        THEN [outcome |-> "NotFound", queried |-> FALSE,
              named |-> [NoNamed EXCEPT !.table_id = table_id]]
        ELSE [outcome |-> IF count = 0 THEN "true" ELSE "false",
              queried |-> TRUE, named |-> NoNamed]

(* check_table_availability: "true" / "false" returned, or the error raised *)
check_table_availability(tbls, bks, table_id, booking_date, booking_time, duration_hours) ==
    LET table == get_table_by_id(tbls, table_id)
        start_datetime == combine(booking_date, booking_time)
        end_datetime == start_datetime + duration_hours
        count == Cardinality(conflicting_bookings(bks, table_id, booking_date,
                                                  end_datetime, start_datetime))
    IN  IF table = NoTable
        THEN [outcome |-> "NotFound", queried |-> FALSE,
              named |-> [NoNamed EXCEPT !.table_id = table_id]]
        ELSE IF ~table.is_available
        THEN [outcome |-> "Unavailable", queried |-> FALSE,
              named |-> [NoNamed EXCEPT !.table_number = table.table_number]]
        ELSE [outcome |-> IF count = 0 THEN "true" ELSE "false",
              queried |-> TRUE, named |-> NoNamed]

(* The error create_booking raises when the check returned False *)
conflict_error(tbls, table_id, booking_date, booking_time) ==
    LET table == get_table_by_id(tbls, table_id)
    IN  [table_number |-> table.table_number,
         table_id |-> IF table = NoTable THEN table_id ELSE 0,
         booking_date |-> booking_date, booking_time |-> booking_time]

(* the variant has no foreign key on user_id *)
booking_fk_ok_table_only(usrs, tbls, row) ==
    row.table_id \in Ids(tbls)

(* The foreign keys of the bookings relation *)
booking_fk_ok(usrs, tbls, row) ==
    row.user_id \in Ids(usrs) /\ row.table_id \in Ids(tbls)

(* the variant omits the status column, which then takes its default *)
booking_row_default_status(id, user_id, table_id, booking_date, booking_time, guests_count, status, notes) ==
    [id |-> id, user_id |-> user_id, table_id |-> table_id,
     booking_date |-> booking_date, booking_time |-> booking_time,
     guests_count |-> guests_count, status |-> "pending",
     notes |-> normalize_notes(notes),
     created_at |-> now, updated_at |-> now]

(* The row create_booking inserts *)
booking_row(id, user_id, table_id, booking_date, booking_time, guests_count, status, notes) ==
    [id |-> id, user_id |-> user_id, table_id |-> table_id,
     booking_date |-> booking_date, booking_time |-> booking_time,
     guests_count |-> guests_count, status |-> status,
     notes |-> normalize_notes(notes),
     created_at |-> now, updated_at |-> now]

(* The INSERT statement of create_booking raises on a store fault or a
   violated foreign key *)
insert_statement_raises(usrs, tbls, row, fault) ==
    fault = "execute" \/ ~booking_fk_ok(usrs, tbls, row)

(* The with-block of create_booking raises: the statement, or the fetch of
   the returned id; commit() may raise after it *)
insert_raises(usrs, tbls, row, fault) ==
    insert_statement_raises(usrs, tbls, row, fault) \/ fault \in {"fetch", "commit"}

(* The INSERT transaction of create_booking: the rows it persists *)
insert_booking(usrs, tbls, row, fault) ==
    LET written == IF insert_statement_raises(usrs, tbls, row, fault) THEN {} ELSE {row}
    IN  get_cursor(written,
                   insert_statement_raises(usrs, tbls, row, fault) \/ fault = "fetch",
                   TRUE, fault = "commit")

(* The availability check create_booking makes before the INSERT.  The
   variant passes no duration, so the check uses its default of 2 hours. *)
admission_check_default_duration(tbls, bks, table_id, booking_date, booking_time, duration_hours) ==
    check_table_availability(tbls, bks, table_id, booking_date, booking_time, 2)

admission_check(tbls, bks, table_id, booking_date, booking_time, duration_hours) ==
    check_table_availability(tbls, bks, table_id, booking_date, booking_time,
                             duration_hours)

----------------------------------------------------------------------------
(* The connection level: relations and the record of a top-level call *)

Relations == {"users", "tables", "bookings"}

NoRun ==
    [fn |-> "none", state |-> "none", exc |-> "none", ret |-> FALSE,
     schema |-> {}, migrations |-> FALSE]

(* No call in progress, no connection open, the relations created, no
   migrations.sql in the working directory *)
DriverInit ==
    /\ stack = <<>>
    /\ conns = 0
    /\ schema = Relations
    /\ migrations = FALSE
    /\ run = NoRun

----------------------------------------------------------------------------
(* Initial state: the three relations exist and are empty (create_tables) *)

Init ==
    /\ users = {}
    /\ tables = {}
    /\ bookings = {}
    /\ nextUserId = 1
    /\ nextTableId = 1
    /\ nextBookingId = 1
    /\ duration = [i \in {} |-> 0]
    /\ last = NoCall
    /\ pc = [c \in Callers |-> "idle"]
    /\ req = [c \in Callers |-> NoCall]
    /\ now = 0
    /\ DriverInit

----------------------------------------------------------------------------
(* Backend operations, each one call by a single caller *)

create_user(username, email) ==
    /\ nextUserId <= MaxUsers
    /\ IF \E u \in users : u.username = username \/ u.email = email
       THEN /\ last' = [Call("create_user", "StoreError") EXCEPT
                          !.username = username, !.email = email]
            /\ UNCHANGED store
       ELSE /\ users' = users \cup {[id |-> nextUserId, username |-> username,
                                     email |-> email,
                                     created_at |-> now, updated_at |-> now]}
            /\ nextUserId' = nextUserId + 1
            /\ last' = [Call("create_user", "ok") EXCEPT !.id = nextUserId,
                          !.username = username, !.email = email]
            /\ UNCHANGED <<tables, bookings, nextTableId, nextBookingId, duration>>
    /\ UNCHANGED <<pc, req, rest>>

(* the variant also keeps table_id, booking_date and booking_time out of the
   update set *)
update_data_slot_protected(kwargs) ==
    [k \in DOMAIN kwargs \ {"id", "created_at", "updated_at", "table_id",
                            "booking_date", "booking_time"} |-> kwargs[k]]

(* the variant keeps every keyword argument in the update set *)
update_data_unfiltered(kwargs) ==
    kwargs

(* The update set of update_user / update_table / update_booking: the
   keyword arguments without id, created_at, updated_at *)
update_data(kwargs) ==
    [k \in DOMAIN kwargs \ {"id", "created_at", "updated_at"} |-> kwargs[k]]

(* the variant leaves updated_at to the store *)
stamped_not_refreshed(data) ==
    data

(* update_data['updated_at'] = datetime.now() *)
stamped(data) ==
    [k \in DOMAIN data \cup {"updated_at"} |->
        IF k = "updated_at" THEN now ELSE data[k]]

(* UPDATE ... SET on one row *)
set_columns(row, data) ==
    [k \in DOMAIN row |-> IF k \in DOMAIN data THEN data[k] ELSE row[k]]

(* update_user: the UNIQUE constraints on username and email reject the
   UPDATE that would duplicate one *)
update_user_call(user_id, kwargs, outcome) ==
    [Call("update_user", outcome) EXCEPT
        !.user_id = user_id, !.keys = DOMAIN kwargs,
        !.username = IF "username" \in DOMAIN kwargs THEN kwargs.username ELSE "",
        !.email = IF "email" \in DOMAIN kwargs THEN kwargs.email ELSE ""]

(* the variant has no UNIQUE constraint on email *)
update_user_email_not_unique(user_id, kwargs) ==
    LET data == update_data(kwargs)
        matched == {u \in users : u.id = user_id}
        updated == {set_columns(u, stamped(data)) : u \in matched}
        others == users \ matched
    IN  /\ IF DOMAIN data = {}
           THEN /\ last' = update_user_call(user_id, kwargs, "False")
                /\ UNCHANGED store
           ELSE IF \E u \in updated, o \in others : u.username = o.username
           THEN /\ last' = update_user_call(user_id, kwargs, "StoreError")
                /\ UNCHANGED store
           ELSE /\ users' = others \cup updated
                /\ last' = update_user_call(user_id, kwargs,
                                            IF matched # {} THEN "True" ELSE "False")
                /\ UNCHANGED <<tables, bookings, nextUserId, nextTableId, nextBookingId,
                               duration>>
        /\ UNCHANGED <<pc, req, rest>>

update_user(user_id, kwargs) ==
    LET data == update_data(kwargs)
        matched == {u \in users : u.id = user_id}
        updated == {set_columns(u, stamped(data)) : u \in matched}
        others == users \ matched
    IN  /\ IF DOMAIN data = {}
           THEN /\ last' = update_user_call(user_id, kwargs, "False")
                /\ UNCHANGED store
           ELSE IF \E u \in updated, o \in others :
                      u.username = o.username \/ u.email = o.email
           THEN /\ last' = update_user_call(user_id, kwargs, "StoreError")
                /\ UNCHANGED store
           ELSE /\ users' = others \cup updated
                /\ last' = update_user_call(user_id, kwargs,
                                            IF matched # {} THEN "True" ELSE "False")
                /\ UNCHANGED <<tables, bookings, nextUserId, nextTableId, nextBookingId,
                               duration>>
        /\ UNCHANGED <<pc, req, rest>>

(* the variant deletes the user whatever references it *)
delete_user_unreferenced(user_id) ==
    /\ users' = {u \in users : u.id # user_id}
    /\ last' = [Call("delete_user", IF user_id \in Ids(users) THEN "True" ELSE "False")
                  EXCEPT !.user_id = user_id]
    /\ UNCHANGED <<tables, bookings, nextUserId, nextTableId, nextBookingId, duration>>
    /\ UNCHANGED <<pc, req, rest>>

(* delete_user: FOREIGN KEY (user_id) REFERENCES users(id) rejects the DELETE
   of a user that a booking references *)
delete_user(user_id) ==
    /\ IF \E b \in bookings : b.user_id = user_id
       THEN /\ last' = [Call("delete_user", "StoreError") EXCEPT !.user_id = user_id]
            /\ UNCHANGED store
       ELSE /\ users' = {u \in users : u.id # user_id}
            /\ last' = [Call("delete_user",
                             IF user_id \in Ids(users) THEN "True" ELSE "False")
                          EXCEPT !.user_id = user_id]
            /\ UNCHANGED <<tables, bookings, nextUserId, nextTableId, nextBookingId, duration>>
    /\ UNCHANGED <<pc, req, rest>>

create_table(table_number, capacity, is_available) ==
    /\ nextTableId <= MaxTables
    /\ IF \E t \in tables : t.table_number = table_number
       THEN /\ last' = [Call("create_table", "StoreError") EXCEPT
                          !.table_number = table_number]
            /\ UNCHANGED store
       ELSE /\ tables' = tables \cup {[id |-> nextTableId, table_number |-> table_number,
                                       capacity |-> capacity, is_available |-> is_available,
                                       created_at |-> now, updated_at |-> now]}
            /\ nextTableId' = nextTableId + 1
            /\ last' = [Call("create_table", "ok") EXCEPT !.id = nextTableId,
                          !.table_number = table_number]
            /\ UNCHANGED <<users, bookings, nextUserId, nextBookingId, duration>>
    /\ UNCHANGED <<pc, req, rest>>

update_table_call(table_id, kwargs, outcome) ==
    [Call("update_table", outcome) EXCEPT
        !.table_id = table_id, !.keys = DOMAIN kwargs,
        !.table_number = IF "table_number" \in DOMAIN kwargs THEN kwargs.table_number
                         ELSE ""]

update_table(table_id, kwargs) ==
    LET data == update_data(kwargs)
        matched == {t \in tables : t.id = table_id}
        updated == {set_columns(t, stamped(data)) : t \in matched}
        others == tables \ matched
    IN  /\ IF DOMAIN data = {}
           THEN /\ last' = update_table_call(table_id, kwargs, "False")
                /\ UNCHANGED store
           ELSE IF \E t \in updated, o \in others : t.table_number = o.table_number
           THEN /\ last' = update_table_call(table_id, kwargs, "StoreError")
                /\ UNCHANGED store
           ELSE /\ tables' = others \cup updated
                /\ last' = update_table_call(table_id, kwargs,
                                             IF matched # {} THEN "True" ELSE "False")
                /\ UNCHANGED <<users, bookings, nextUserId, nextTableId, nextBookingId, duration>>
        /\ UNCHANGED <<pc, req, rest>>

delete_table(table_id) ==
    /\ IF \E b \in bookings : b.table_id = table_id
       THEN /\ last' = [Call("delete_table", "StoreError") EXCEPT !.table_id = table_id]
            /\ UNCHANGED store
       ELSE /\ tables' = {t \in tables : t.id # table_id}
            /\ last' = [Call("delete_table",
                             IF table_id \in Ids(tables) THEN "True" ELSE "False")
                          EXCEPT !.table_id = table_id]
            /\ UNCHANGED <<users, bookings, nextUserId, nextTableId, nextBookingId, duration>>
    /\ UNCHANGED <<pc, req, rest>>

(* the variant purges the cancelled bookings and the bookings of other dates
   of the table before it counts *)
call_check_table_availability_purging(table_id, booking_date, booking_time, duration_hours) ==
    LET kept == {b \in bookings : b.table_id # table_id \/ b.booking_date = booking_date}
        chk == check_table_availability(tables, kept, table_id, booking_date,
                                        booking_time, duration_hours)
    IN  /\ last' = [Call("check_table_availability", chk.outcome) EXCEPT
                      !.table_id = table_id, !.booking_date = booking_date,
                      !.booking_time = booking_time, !.duration_hours = duration_hours,
                      !.queried = chk.queried, !.named = chk.named]
        /\ bookings' = kept
        /\ UNCHANGED <<users, tables, nextUserId, nextTableId, nextBookingId, duration,
                       pc, req, rest>>

(* A call of check_table_availability on its own (the "check" button) *)
call_check_table_availability(table_id, booking_date, booking_time, duration_hours) ==
    LET chk == check_table_availability(tables, bookings, table_id, booking_date,
                                        booking_time, duration_hours)
    IN  /\ last' = [Call("check_table_availability", chk.outcome) EXCEPT
                      !.table_id = table_id, !.booking_date = booking_date,
                      !.booking_time = booking_time, !.duration_hours = duration_hours,
                      !.queried = chk.queried, !.named = chk.named]
        /\ UNCHANGED <<store, pc, req, rest>>

(* create_booking by a single caller: the availability check, then the
   INSERT in its own transaction, which may meet a store fault. *)
create_booking(user_id, table_id, booking_date, booking_time, guests_count, status, notes, duration_hours) ==
    LET chk == admission_check(tables, bookings, table_id, booking_date,
                               booking_time, duration_hours)
        call == [Call("create_booking", chk.outcome) EXCEPT
                      !.user_id = user_id, !.guests_count = guests_count,
                      !.status = status, !.notes = notes,
                      !.table_id = table_id, !.booking_date = booking_date,
                      !.booking_time = booking_time, !.duration_hours = duration_hours,
                      !.queried = chk.queried, !.named = chk.named]
        row == booking_row(nextBookingId, user_id, table_id, booking_date,
                           booking_time, guests_count, status, notes)
    IN  /\ nextBookingId <= MaxBookings
        /\ IF chk.outcome \in {"NotFound", "Unavailable"}
           THEN /\ last' = call
                /\ UNCHANGED store
           ELSE IF chk.outcome = "false"
           THEN /\ last' = [call EXCEPT !.outcome = "Conflict",
                              !.named = conflict_error(tables, table_id, booking_date,
                                                       booking_time)]
                /\ UNCHANGED store
           ELSE \E fault \in Faults :
                LET persisted == insert_booking(users, tables, row, fault)
                    raised == insert_raises(users, tables, row, fault)
                IN  /\ bookings' = bookings \cup persisted
                    /\ nextBookingId' = IF persisted # {} THEN nextBookingId + 1
                                        ELSE nextBookingId
                    /\ duration' = [i \in DOMAIN duration \cup Ids(persisted) |->
                                       IF i = row.id THEN duration_hours ELSE duration[i]]
                    /\ last' = IF raised
                               THEN [call EXCEPT !.outcome = "StoreError", !.fault = fault]
                               ELSE [call EXCEPT !.outcome = "ok", !.id = row.id,
                                                 !.returned = row]
                    /\ UNCHANGED <<users, tables, nextUserId, nextTableId>>
        /\ UNCHANGED <<pc, req, rest>>

(* the variant takes status out of the update set *)
booking_update_data_no_status(kwargs) ==
    LET data == update_data(kwargs)
    IN  [k \in DOMAIN data \ {"status"} |->
            IF k = "notes" THEN normalize_notes(data[k]) ELSE data[k]]

(* update_booking: notes in the update set is normalized like on creation *)
booking_update_data(kwargs) ==
    LET data == update_data(kwargs)
    IN  [k \in DOMAIN data |->
            IF k = "notes" THEN normalize_notes(data[k]) ELSE data[k]]

(* The keyword arguments of an update_booking call, as the call record
   keeps them *)
update_booking_call(booking_id, kwargs, outcome) ==
    [Call("update_booking", outcome) EXCEPT
        !.id = booking_id, !.keys = DOMAIN kwargs,
        !.before = IF booking_id \in Ids(bookings)
                   THEN CHOOSE b \in bookings : b.id = booking_id ELSE NoBooking,
        !.status = IF "status" \in DOMAIN kwargs THEN kwargs.status ELSE "",
        !.notes = IF "notes" \in DOMAIN kwargs THEN kwargs.notes ELSE NotesNone,
        !.table_id = IF "table_id" \in DOMAIN kwargs THEN kwargs.table_id ELSE 0,
        !.booking_date = IF "booking_date" \in DOMAIN kwargs THEN kwargs.booking_date ELSE 0,
        !.booking_time = IF "booking_time" \in DOMAIN kwargs THEN kwargs.booking_time ELSE 0,
        !.guests_count = IF "guests_count" \in DOMAIN kwargs THEN kwargs.guests_count ELSE 0]

update_booking(booking_id, kwargs) ==
    LET data == booking_update_data(kwargs)
        matched == {b \in bookings : b.id = booking_id}
        updated == {set_columns(b, stamped(data)) : b \in matched}
    IN  /\ IF DOMAIN data = {}
           THEN /\ last' = update_booking_call(booking_id, kwargs, "False")
                /\ UNCHANGED store
           ELSE IF \E b \in updated : ~booking_fk_ok(users, tables, b)
           THEN /\ last' = update_booking_call(booking_id, kwargs, "StoreError")
                /\ UNCHANGED store
           ELSE /\ bookings' = (bookings \ matched) \cup updated
                /\ last' = update_booking_call(booking_id, kwargs,
                                               IF matched # {} THEN "True" ELSE "False")
                /\ UNCHANGED <<users, tables, nextUserId, nextTableId, nextBookingId,
                               duration>>
        /\ UNCHANGED <<pc, req, rest>>

(* the variant marks the row deleted and keeps it *)
delete_booking_soft(booking_id) ==
    /\ bookings' = {IF b.id = booking_id THEN [b EXCEPT !.status = "deleted"] ELSE b :
                      b \in bookings}
    /\ duration' = duration
    /\ last' = [Call("delete_booking",
                     IF booking_id \in Ids(bookings) THEN "True" ELSE "False")
                  EXCEPT !.id = booking_id,
                         !.before = IF booking_id \in Ids(bookings)
                                    THEN CHOOSE b \in bookings : b.id = booking_id
                                    ELSE NoBooking]
    /\ UNCHANGED <<users, tables, nextUserId, nextTableId, nextBookingId, pc, req, rest>>

delete_booking(booking_id) ==
    /\ bookings' = {b \in bookings : b.id # booking_id}
    /\ duration' = [i \in DOMAIN duration \ {booking_id} |-> duration[i]]
    /\ last' = [Call("delete_booking",
                     IF booking_id \in Ids(bookings) THEN "True" ELSE "False")
                  EXCEPT !.id = booking_id,
                         !.before = IF booking_id \in Ids(bookings)
                                    THEN CHOOSE b \in bookings : b.id = booking_id
                                    ELSE NoBooking]
    /\ UNCHANGED <<users, tables, nextUserId, nextTableId, nextBookingId, pc, req, rest>>

----------------------------------------------------------------------------
(* The sequential system: one caller, one call at a time *)

Next ==
    \/ \E n \in {"ann"}, e \in {"ann@x"} : create_user(n, e)
    \/ \E n \in TableNumbers : create_table(n, 4, TRUE)
    \/ \E t \in 1..MaxTables, h \in Times,
          s \in {"pending", "cancelled"}, dur \in Durations :
          create_booking(1, t, 1, h, 2, s, NotesNone, dur)
    \/ \E b \in 1..MaxBookings, s \in {"pending", "cancelled"} :
          update_booking(b, [status |-> s])
    \/ \E b \in 1..MaxBookings : delete_booking(b)

Spec == Init /\ [][Next]_vars

----------------------------------------------------------------------------
(* The sequential system with the life of a table: created available or
   not, switched, deleted *)

NextTables ==
    \/ \E n \in {"ann"}, e \in {"ann@x"} : create_user(n, e)
    \/ \E n \in TableNumbers, a \in BOOLEAN : create_table(n, 4, a)
    \/ \E t \in 1..MaxTables, a \in BOOLEAN : update_table(t, [is_available |-> a])
    \/ \E t \in 1..MaxTables : delete_table(t)
    \/ \E t \in 1..MaxTables, d \in Dates, h \in {18, 19}, dur \in {1, 2} :
          call_check_table_availability(t, d, h, dur)
    \/ \E t \in 1..MaxTables, d \in Dates, h \in {18, 19}, dur \in {1, 2} :
          create_booking(1, t, d, h, 2, "pending", NotesNone, dur)
    \/ \E b \in 1..MaxBookings : delete_booking(b)

SpecTables == Init /\ [][NextTables]_vars

----------------------------------------------------------------------------
(* Concurrent callers of create_booking.  Each statement runs on a
   connection of its own and commits on its own, so a call is a sequence of
   atomic steps on the store: the read of the table, the overlap query, then
   either the read of the table for the Conflict error or the INSERT.
   pc[c] is where caller c stands, req[c] its call. *)

begin_create_booking(c, user_id, table_id, booking_date, booking_time, status, duration_hours) ==
    /\ pc[c] \in {"idle", "done"}
    /\ nextBookingId <= MaxBookings
    /\ pc' = [pc EXCEPT ![c] = "get_table"]
    /\ req' = [req EXCEPT ![c] =
                 [Call("create_booking", "") EXCEPT
                    !.user_id = user_id, !.table_id = table_id,
                    !.booking_date = booking_date, !.booking_time = booking_time,
                    !.status = status, !.duration_hours = duration_hours]]
    /\ UNCHANGED <<store, last, rest>>

(* check_table_availability, lines 593-597 *)
step_get_table(c) ==
    LET table == get_table_by_id(tables, req[c].table_id)
    IN  /\ pc[c] = "get_table"
        /\ IF table = NoTable
           THEN /\ pc' = [pc EXCEPT ![c] = "done"]
                /\ req' = [req EXCEPT ![c].outcome = "NotFound",
                             ![c].named = [NoNamed EXCEPT !.table_id = req[c].table_id]]
           ELSE IF ~table.is_available
           THEN /\ pc' = [pc EXCEPT ![c] = "done"]
                /\ req' = [req EXCEPT ![c].outcome = "Unavailable",
                             ![c].named = [NoNamed EXCEPT
                                              !.table_number = table.table_number]]
           ELSE /\ pc' = [pc EXCEPT ![c] = "count"]
                /\ UNCHANGED req
        /\ UNCHANGED <<store, last, rest>>

(* check_table_availability, lines 599-624, and the test of line 641 *)
step_count(c) ==
    LET start_datetime == combine(req[c].booking_date, req[c].booking_time)
        end_datetime == start_datetime + req[c].duration_hours
        count == Cardinality(conflicting_bookings(bookings, req[c].table_id,
                                 req[c].booking_date, end_datetime, start_datetime))
    IN  /\ pc[c] = "count"
        /\ pc' = [pc EXCEPT ![c] = IF count = 0 THEN "insert" ELSE "conflict"]
        /\ req' = [req EXCEPT ![c].queried = TRUE]
        /\ UNCHANGED <<store, last, rest>>

(* create_booking, lines 642-647 *)
step_conflict(c) ==
    /\ pc[c] = "conflict"
    /\ pc' = [pc EXCEPT ![c] = "done"]
    /\ req' = [req EXCEPT ![c].outcome = "Conflict",
                 ![c].named = conflict_error(tables, req[c].table_id,
                                             req[c].booking_date, req[c].booking_time)]
    /\ UNCHANGED <<store, last, rest>>

(* create_booking, lines 649-684 *)
step_insert(c) ==
    /\ pc[c] = "insert"
    /\ \E fault \in Faults :
          LET row == booking_row(nextBookingId, req[c].user_id, req[c].table_id,
                                 req[c].booking_date, req[c].booking_time, 2,
                                 req[c].status, NotesNone)
              persisted == insert_booking(users, tables, row, fault)
              raised == insert_raises(users, tables, row, fault)
          IN  /\ bookings' = bookings \cup persisted
              /\ nextBookingId' = IF persisted # {} THEN nextBookingId + 1
                                  ELSE nextBookingId
              /\ duration' = [i \in DOMAIN duration \cup Ids(persisted) |->
                                 IF i = row.id THEN req[c].duration_hours
                                 ELSE duration[i]]
              /\ req' = IF raised
                        THEN [req EXCEPT ![c].outcome = "StoreError", ![c].fault = fault]
                        ELSE [req EXCEPT ![c].outcome = "ok", ![c].id = row.id]
    /\ pc' = [pc EXCEPT ![c] = "done"]
    /\ UNCHANGED <<users, tables, nextUserId, nextTableId, last, rest>>

NextConc ==
    \/ \E n \in {"ann"}, e \in {"ann@x"} : create_user(n, e)
    \/ \E n \in {"T1"} : create_table(n, 4, TRUE)
    \/ \E c \in Callers, h \in {18, 19}, dur \in {1, 2} :
          begin_create_booking(c, 1, 1, 1, h, "pending", dur)
    \/ \E c \in Callers : step_get_table(c)
    \/ \E c \in Callers : step_count(c)
    \/ \E c \in Callers : step_conflict(c)
    \/ \E c \in Callers : step_insert(c)

SpecConc == Init /\ [][NextConc]_vars

----------------------------------------------------------------------------
(* check_table_availability as a function of the store.  It only reads, so
   it is applied to every store of the bounds: two tables, one stored user
   and up to MaxBookings bookings of any table, date, time, status and
   creation duration.  Each such store is one the program reaches, by
   create_booking calls followed by update_booking calls, which change
   table_id, booking_date, booking_time and status without any check. *)

StoredRows ==
    [table_id : 1..MaxTables, booking_date : Dates, booking_time : Times,
     status : {"pending", "cancelled"}, duration_hours : Durations]

InitCheck ==
    /\ users = {[id |-> 1, username |-> "ann", email |-> "ann@x",
                 created_at |-> 0, updated_at |-> 0]}
    /\ tables = {[id |-> t, table_number |-> IF t = 1 THEN "T1" ELSE "T2",
                  capacity |-> 4, is_available |-> TRUE,
                  created_at |-> 0, updated_at |-> 0] : t \in 1..2}
    /\ \E n \in 0..MaxBookings : \E rows \in [1..n -> StoredRows] :
          /\ bookings = {[id |-> i, user_id |-> 1, table_id |-> rows[i].table_id,
                          booking_date |-> rows[i].booking_date,
                          booking_time |-> rows[i].booking_time,
                          guests_count |-> 2, status |-> rows[i].status,
                          notes |-> <<>>,
                          created_at |-> 0, updated_at |-> 0] : i \in 1..n}
          /\ duration = [i \in 1..n |-> rows[i].duration_hours]
          /\ nextBookingId = n + 1
    /\ nextUserId = 2
    /\ nextTableId = 3
    /\ last = NoCall
    /\ pc = [c \in Callers |-> "idle"]
    /\ req = [c \in Callers |-> NoCall]
    /\ now = 0
    /\ DriverInit

NextCheck ==
    \E h \in Times, dur \in Durations : call_check_table_availability(1, 1, h, dur)

SpecCheck == InitCheck /\ [][NextCheck]_vars

----------------------------------------------------------------------------
(* The sequential system with the contents of a booking's columns: any
   guests_count, status and notes a caller may pass to create_booking and
   update_booking, and a table of any capacity *)

NotesInputs ==
    {NotesNone, NotesOther, NotesStr(<<" ">>), NotesStr(<<" ", "a", " ">>)}

StatusInputs == BookingStatuses \cup {"vip"}

NextFields ==
    \/ \E n \in {"ann"}, e \in {"ann@x"} : create_user(n, e)
    \/ \E n \in {"T1"}, cap \in {0, 4} : create_table(n, cap, TRUE)
    \/ \E h \in {18, 20}, g \in {0, 2}, s \in {"pending", "vip"}, n \in NotesInputs :
          create_booking(1, 1, 1, h, g, s, n, 2)
    \/ \E b \in 1..MaxBookings, n \in NotesInputs : update_booking(b, [notes |-> n])
    \/ \E b \in 1..MaxBookings, s \in StatusInputs : update_booking(b, [status |-> s])

SpecFields == Init /\ [][NextFields]_vars

----------------------------------------------------------------------------
(* The sequential system with bookings that are moved: update_booking
   changes table_id, booking_date or booking_time of a stored booking, and a
   table is switched unavailable after it was booked *)

NextUpdate ==
    \/ \E n \in {"ann"}, e \in {"ann@x"} : create_user(n, e)
    \/ \E n \in TableNumbers : create_table(n, 4, TRUE)
    \/ \E t \in 1..MaxTables, a \in BOOLEAN : update_table(t, [is_available |-> a])
    \/ \E t \in 1..MaxTables, h \in {18, 20} :
          create_booking(1, t, 1, h, 2, "pending", NotesNone, 2)
    \/ \E b \in 1..MaxBookings, t \in 1..(MaxTables + 1) :
          update_booking(b, [table_id |-> t])
    \/ \E b \in 1..MaxBookings, d \in Dates : update_booking(b, [booking_date |-> d])
    \/ \E b \in 1..MaxBookings, h \in {18, 20} : update_booking(b, [booking_time |-> h])

SpecUpdate == Init /\ [][NextUpdate]_vars

----------------------------------------------------------------------------
(* The sequential system with deletions: users, tables and bookings are
   created and deleted *)

NextDelete ==
    \/ \E n \in {"ann"}, e \in {"ann@x"} : create_user(n, e)
    \/ \E n \in TableNumbers : create_table(n, 4, TRUE)
    \/ \E t \in 1..MaxTables, h \in {18, 20} :
          create_booking(1, t, 1, h, 2, "pending", NotesNone, 2)
    \/ \E u \in 1..MaxUsers : delete_user(u)
    \/ \E t \in 1..MaxTables : delete_table(t)
    \/ \E b \in 1..MaxBookings : delete_booking(b)

SpecDelete == Init /\ [][NextDelete]_vars

----------------------------------------------------------------------------
(* The sequential system around midnight: bookings late on one date and
   early on the next, and availability checks on both dates *)

LateAndEarly == {0, 23}

NextMidnight ==
    \/ \E n \in {"ann"}, e \in {"ann@x"} : create_user(n, e)
    \/ \E n \in {"T1"} : create_table(n, 4, TRUE)
    \/ \E d \in Dates, h \in LateAndEarly, dur \in {2, 3} :
          create_booking(1, 1, d, h, 2, "pending", NotesNone, dur)
    \/ \E d \in Dates, h \in LateAndEarly, dur \in {2, 3} :
          call_check_table_availability(1, d, h, dur)
    \/ \E b \in 1..MaxBookings : delete_booking(b)

SpecMidnight == Init /\ [][NextMidnight]_vars

----------------------------------------------------------------------------
(* The sequential system with the unique columns: users and tables are
   created and renamed *)

Usernames == {"ann", "bob"}
Emails == {"ann@x", "bob@x"}

NextUnique ==
    \/ \E n \in Usernames, e \in Emails : create_user(n, e)
    \/ \E u \in 1..MaxUsers, n \in Usernames : update_user(u, [username |-> n])
    \/ \E u \in 1..MaxUsers, e \in Emails : update_user(u, [email |-> e])
    \/ \E n \in TableNumbers : create_table(n, 4, TRUE)
    \/ \E t \in 1..MaxTables, n \in TableNumbers : update_table(t, [table_number |-> n])

SpecUnique == Init /\ [][NextUnique]_vars

----------------------------------------------------------------------------
(* The sequential system with bookings of the default duration only:
   created, with any status of pending and cancelled, and deleted; and the
   same with updates of the status *)

DefaultDuration == 2

NextDefault ==
    \/ \E n \in {"ann"}, e \in {"ann@x"} : create_user(n, e)
    \/ \E n \in TableNumbers : create_table(n, 4, TRUE)
    \/ \E t \in 1..MaxTables, d \in Dates, h \in Times, s \in {"pending", "cancelled"} :
          create_booking(1, t, d, h, 2, s, NotesNone, DefaultDuration)
    \/ \E b \in 1..MaxBookings : delete_booking(b)

SpecDefault == Init /\ [][NextDefault]_vars

NextStatus ==
    \/ \E n \in {"ann"}, e \in {"ann@x"} : create_user(n, e)
    \/ \E n \in {"T1"} : create_table(n, 4, TRUE)
    \/ \E h \in Times, s \in {"pending", "cancelled"} :
          create_booking(1, 1, 1, h, 2, s, NotesNone, DefaultDuration)
    \/ \E b \in 1..MaxBookings, s \in BookingStatuses : update_booking(b, [status |-> s])

SpecStatus == Init /\ [][NextStatus]_vars

----------------------------------------------------------------------------
(* The sequential system with a running clock and every shape of update
   set: none, protected columns only, a column, a column with the protected
   ones; on stored and on unknown ids *)

MaxNow == 2

tick ==
    /\ now < MaxNow
    /\ now' = now + 1
    /\ UNCHANGED <<store, last, pc, req, driver>>

NoKwargs == [k \in {} |-> 0]

NextStamps ==
    \/ tick
    \/ \E n \in Usernames : create_user(n, IF n = "ann" THEN "ann@x" ELSE "bob@x")
    \/ \E n \in {"T1"} : create_table(n, 4, TRUE)
    \/ create_booking(1, 1, 1, 18, 2, "pending", NotesNone, 2)
    \/ \E u \in 1..MaxUsers :
          \/ update_user(u, NoKwargs)
          \/ update_user(u, [id |-> 9])
          \/ update_user(u, [username |-> "bob"])
          \/ update_user(u, [username |-> "bob", id |-> 9, created_at |-> 9,
                             updated_at |-> 9])
    \/ \E t \in 1..MaxTables :
          \/ update_table(t, NoKwargs)
          \/ update_table(t, [created_at |-> 9])
          \/ update_table(t, [capacity |-> 6])
          \/ update_table(t, [capacity |-> 6, id |-> 9, created_at |-> 9,
                              updated_at |-> 9])
    \/ \E b \in 1..MaxBookings :
          \/ update_booking(b, NoKwargs)
          \/ update_booking(b, [updated_at |-> 9])
          \/ update_booking(b, [status |-> "confirmed"])
          \/ update_booking(b, [table_id |-> MaxTables + 1])
          \/ update_booking(b, [status |-> "confirmed", id |-> 9, created_at |-> 9,
                                updated_at |-> 9])

SpecStamps == Init /\ [][NextStamps]_vars

----------------------------------------------------------------------------
(* Callers of create_booking interleaved with update_table calls that switch
   the availability flag of the table *)

NextConcFlag ==
    \/ \E n \in {"ann"}, e \in {"ann@x"} : create_user(n, e)
    \/ \E n \in {"T1"} : create_table(n, 4, TRUE)
    \/ \E a \in BOOLEAN : update_table(1, [is_available |-> a])
    \/ \E c \in Callers, h \in {18, 20} :
          begin_create_booking(c, 1, 1, 1, h, "pending", DefaultDuration)
    \/ \E c \in Callers : step_get_table(c)
    \/ \E c \in Callers : step_count(c)
    \/ \E c \in Callers : step_conflict(c)
    \/ \E c \in Callers : step_insert(c)

SpecConcFlag == Init /\ [][NextConcFlag]_vars

----------------------------------------------------------------------------
(* The connection level.  A frame is one function call in progress: the
   function, its position, the statements it has yet to execute, the state
   of the connection and of the cursor of its PostgreSQLDriver, what the
   open transaction has written and what it has committed, the exception
   the block under the cursor raised, the exception in flight and the value
   the last callee returned. *)

records == <<store, last, pc, req, now>>

DriverFaults == {"none", "raise"}

Statement(kind, rel) == [kind |-> kind, rel |-> rel]

Frame(fn, at, prog, commit) ==
    [fn |-> fn, at |-> at, prog |-> prog, commit |-> commit,
     connection |-> "none", cursor |-> "none",
     wrote |-> {}, written |-> {}, persisted |-> {},
     raised |-> "none", exc |-> "none", ret |-> TRUE]

Top == stack[Len(stack)]

Below == SubSeq(stack, 1, Len(stack) - 1)

SetTop(f) == [stack EXCEPT ![Len(stack)] = f]

(* The statements apply_migrations runs when open('migrations.sql') raises
   FileNotFoundError: DO blocks that alter a relation only IF EXISTS, and
   plain UPDATEs of users, tables and bookings *)
migrations_fallback ==
    <<Statement("guarded", "users"), Statement("guarded", "users"),
      Statement("update", "users"), Statement("update", "users"),
      Statement("guarded", "tables"),
      Statement("update", "tables"), Statement("update", "tables"),
      Statement("guarded", "bookings"),
      Statement("update", "bookings"), Statement("update", "bookings"),
      Statement("guarded", "bookings"), Statement("update", "bookings")>>

(* With the file present its whole text is one statement, of content the
   sources do not hold *)
apply_migrations_statements(file) ==
    IF file THEN <<Statement("script", "migrations.sql")>> ELSE migrations_fallback

create_tables_statements ==
    <<Statement("create", "users"),
      Statement("index", "users"), Statement("index", "users"),
      Statement("create", "tables"), Statement("index", "tables"),
      Statement("create", "bookings"), Statement("guarded", "bookings"),
      Statement("index", "bookings"), Statement("index", "bookings"),
      Statement("index", "bookings"), Statement("index", "bookings")>>

(* FOREIGN KEY ... REFERENCES in CREATE TABLE bookings *)
References(rel) == IF rel = "bookings" THEN {"users", "tables"} ELSE {}

(* Whether the store rejects the statement: an UPDATE of, or an index on, a
   relation that does not exist; a CREATE TABLE referencing one; or a fault *)
statement_raises(s, sch, fault) ==
    \/ fault = "raise"
    \/ s.kind \in {"update", "index"} /\ s.rel \notin sch
    \/ s.kind = "create" /\ ~(References(s.rel) \subseteq sch)

(* What the statement writes in its transaction: the relation it creates,
   rows, or, for the migrations file, the relations its text creates *)
statement_effects(s, sch, created) ==
    IF statement_raises(s, sch, "none") THEN {}
    ELSE CASE s.kind = "create" -> {s.rel}
           [] s.kind \in {"update", "dml"} -> {"rows"}
           [] s.kind = "script" -> created
           [] OTHER -> {}

EntryAt(fn) ==
    CASE fn = "create_booking" -> "call_check_table_availability"
      [] fn = "init_database" -> "call_apply_migrations"
      [] fn = "driver" -> "gc_enter"
      [] OTHER -> "connect"

(* Where a function goes on once db.connect() has returned *)
AfterConnect(f) ==
    IF f.fn = "check_table_availability" THEN "call_get_table_by_id"
    ELSE IF f.prog = <<>> THEN "finally" ELSE "gc_enter"

(* The caller when its callee has ended: a raised exception runs the
   caller's finally (check_table_availability), its except (init_database)
   or leaves it (create_booking, which holds no connection at its calls);
   a returned value moves the caller on *)
Resume(c, exc, ret) ==
    IF exc # "none"
    THEN [c EXCEPT !.exc = exc,
                   !.at = CASE c.fn = "init_database" -> "except"
                            [] c.fn = "check_table_availability" -> "finally"
                            [] OTHER -> "unwind"]
    ELSE CASE c.fn = "check_table_availability" -> [c EXCEPT !.at = "test"]
           [] c.fn = "create_booking" /\ c.at = "call_check_table_availability" ->
                [c EXCEPT !.ret = ret,
                          !.at = IF ret THEN "connect" ELSE "call_get_table_by_id"]
           [] c.fn = "create_booking" /\ c.at = "call_get_table_by_id" ->
                [c EXCEPT !.exc = "Conflict", !.at = "unwind"]
           [] c.fn = "init_database" /\ c.at = "call_apply_migrations" ->
                [c EXCEPT !.at = "call_create_tables"]
           [] OTHER -> [c EXCEPT !.at = "return_true"]

(* The top frame ends, raising exc or returning ret *)
Deliver(exc, ret) ==
    IF Below = <<>>
    THEN /\ stack' = <<>>
         /\ run' = [run EXCEPT !.state = IF exc = "none" THEN "returned" ELSE "raised",
                               !.exc = exc, !.ret = ret]
    ELSE /\ stack' = [Below EXCEPT ![Len(Below)] = Resume(@, exc, ret)]
         /\ run' = run

(* A top-level call starts *)
call_begin(fn, prog, commit) ==
    /\ stack = <<>>
    /\ stack' = <<Frame(fn, EntryAt(fn), prog, commit)>>
    /\ run' = [fn |-> fn, state |-> "running", exc |-> "none", ret |-> FALSE,
               schema |-> schema, migrations |-> migrations]
    /\ UNCHANGED <<conns, schema, migrations>>
    /\ UNCHANGED records

(* A function calls another one of the backend *)
call_function ==
    /\ stack # <<>>
    /\ Top.at \in {"call_get_table_by_id", "call_check_table_availability",
                   "call_apply_migrations", "call_create_tables"}
    /\ stack' = Append(stack,
          CASE Top.at = "call_get_table_by_id" ->
                 Frame("get_table_by_id", "connect", <<Statement("select", "tables")>>, TRUE)
            [] Top.at = "call_check_table_availability" ->
                 Frame("check_table_availability", "connect",
                       <<Statement("select", "bookings")>>, TRUE)
            [] Top.at = "call_apply_migrations" ->
                 Frame("apply_migrations", "connect",
                       apply_migrations_statements(migrations), TRUE)
            [] OTHER ->
                 Frame("create_tables", "connect", create_tables_statements, TRUE))
    /\ UNCHANGED <<conns, schema, migrations, run>>
    /\ UNCHANGED records

(* db = PostgreSQLDriver(); db.connect(), before the try of the function *)
connect(fault) ==
    /\ stack # <<>>
    /\ Top.at = "connect"
    /\ IF fault = "raise"
       THEN /\ Deliver("ConnectionError", FALSE)
            /\ conns' = conns
       ELSE /\ stack' = SetTop([Top EXCEPT !.connection = "open",
                                           !.at = AfterConnect(Top)])
            /\ conns' = conns + 1
            /\ run' = run
    /\ UNCHANGED <<schema, migrations>>
    /\ UNCHANGED records

(* check_table_availability tests the table it read: NotFound, Unavailable
   or on to the overlap query *)
test_table(outcome) ==
    /\ stack # <<>>
    /\ Top.at = "test"
    /\ stack' = SetTop(IF outcome = "none"
                       THEN [Top EXCEPT !.at = "gc_enter"]
                       ELSE [Top EXCEPT !.exc = outcome, !.at = "finally"])
    /\ UNCHANGED <<conns, schema, migrations, run>>
    /\ UNCHANGED records

(* get_cursor is entered: a driver that is not connected connects *)
get_cursor_enter(fault) ==
    /\ stack # <<>>
    /\ Top.at = "gc_enter"
    /\ LET opened == [Top EXCEPT !.connection = "open", !.cursor = "open",
                                 !.wrote = {}, !.written = {}, !.persisted = {},
                                 !.raised = "none", !.at = "gc_block"]
       IN  IF Top.connection = "open"
           THEN /\ fault = "none"
                /\ stack' = SetTop(opened)
                /\ conns' = conns
           ELSE IF fault = "raise"
           THEN /\ stack' = SetTop([Top EXCEPT !.exc = "ConnectionError",
                                               !.at = "finally"])
                /\ conns' = conns
           ELSE /\ stack' = SetTop(opened)
                /\ conns' = conns + 1
    /\ UNCHANGED <<schema, migrations, run>>
    /\ UNCHANGED records

(* The block under the cursor executes the next statement *)
get_cursor_block(fault, created) ==
    /\ stack # <<>>
    /\ Top.at = "gc_block"
    /\ LET s == Head(Top.prog)
           eff == statement_effects(s, schema, created)
       IN  /\ (s.kind # "script") => (created = {})
           /\ stack' = SetTop(
                 IF statement_raises(s, schema, fault)
                 THEN [Top EXCEPT !.wrote = eff, !.written = eff,
                                  !.raised = "StatementError",
                                  !.exc = "StatementError", !.at = "gc_rollback"]
                 ELSE [Top EXCEPT !.wrote = eff, !.written = eff,
                                  !.at = IF Top.commit THEN "gc_commit" ELSE "gc_close"])
    /\ UNCHANGED <<conns, schema, migrations, run>>
    /\ UNCHANGED records

(* if commit: self._connection.commit() *)
get_cursor_commit(fault) ==
    /\ stack # <<>>
    /\ Top.at = "gc_commit"
    /\ IF fault = "raise"
       THEN /\ stack' = SetTop([Top EXCEPT !.exc = "CommitError", !.at = "gc_rollback"])
            /\ schema' = schema
       ELSE /\ stack' = SetTop([Top EXCEPT !.persisted = Top.written,
                                           !.written = {}, !.at = "gc_close"])
            /\ schema' = schema \cup (Top.written \cap Relations)
    /\ UNCHANGED <<conns, migrations, run>>
    /\ UNCHANGED records

get_cursor_rollback_commits ==
    /\ stack # <<>>
    /\ Top.at = "gc_rollback"
    /\ stack' = SetTop([Top EXCEPT !.persisted = Top.written, !.written = {},
                                   !.at = "gc_close"])
    /\ schema' = schema \cup (Top.written \cap Relations)
    /\ UNCHANGED <<conns, migrations, run>>
    /\ UNCHANGED records

(* except Exception as e: self._connection.rollback() *)
get_cursor_rollback ==
    /\ stack # <<>>
    /\ Top.at = "gc_rollback"
    /\ stack' = SetTop([Top EXCEPT !.written = {}, !.at = "gc_close"])
    /\ UNCHANGED <<conns, schema, migrations, run>>
    /\ UNCHANGED records

(* finally: cursor.close(), then raise e or leave the with statement *)
get_cursor_close ==
    /\ stack # <<>>
    /\ Top.at = "gc_close"
    /\ stack' = SetTop(
          IF Top.exc # "none"
          THEN [Top EXCEPT !.cursor = "closed",
                           !.at = IF Top.fn \in {"apply_migrations", "create_tables"}
                                  THEN "execute_sql" ELSE "finally"]
          ELSE [Top EXCEPT !.cursor = "closed", !.prog = Tail(Top.prog),
                           !.at = IF Tail(Top.prog) = <<>> THEN "finally"
                                  ELSE "gc_enter"])
    /\ UNCHANGED <<conns, schema, migrations, run>>
    /\ UNCHANGED records

(* execute_sql turns the store's error into a RuntimeError *)
execute_sql ==
    /\ stack # <<>>
    /\ Top.at = "execute_sql"
    /\ stack' = SetTop([Top EXCEPT !.exc = "RuntimeError", !.at = "finally"])
    /\ UNCHANGED <<conns, schema, migrations, run>>
    /\ UNCHANGED records

disconnect_on_success_only(ret) ==
    /\ stack # <<>>
    /\ Top.at = "finally"
    /\ (ret = FALSE) => (Top.fn = "check_table_availability" /\ Top.exc = "none")
    /\ conns' = IF Top.connection = "open" /\ Top.exc = "none" THEN conns - 1 ELSE conns
    /\ Deliver(Top.exc, ret)
    /\ UNCHANGED <<schema, migrations>>
    /\ UNCHANGED records

(* finally: db.disconnect(), and the function returns or raises; what the
   transaction wrote and did not commit goes with the connection *)
disconnect(ret) ==
    /\ stack # <<>>
    /\ Top.at = "finally"
    /\ (ret = FALSE) => (Top.fn = "check_table_availability" /\ Top.exc = "none")
    /\ conns' = IF Top.connection = "open" THEN conns - 1 ELSE conns
    /\ Deliver(Top.exc, ret)
    /\ UNCHANGED <<schema, migrations>>
    /\ UNCHANGED records

(* An exception leaves a function that has no handler for it *)
unwind ==
    /\ stack # <<>>
    /\ Top.at = "unwind"
    /\ Deliver(Top.exc, FALSE)
    /\ UNCHANGED <<conns, schema, migrations>>
    /\ UNCHANGED records

(* init_database returns True after create_tables, False from its except *)
init_database_return ==
    /\ stack # <<>>
    /\ Top.at \in {"except", "return_true"}
    /\ Deliver("none", Top.at = "return_true")
    /\ UNCHANGED <<conns, schema, migrations>>
    /\ UNCHANGED records

(* The calls of the backend and a direct use of the driver: a CRUD function
   with and without a statement to run (an update with nothing to set
   returns from inside its try), the functions that call one another, and
   get_cursor on a driver that was never connected *)
TopLevelCalls ==
    {<<"crud", <<>>, TRUE>>,
     <<"crud", <<Statement("dml", "users")>>, TRUE>>,
     <<"get_table_by_id", <<Statement("select", "tables")>>, TRUE>>,
     <<"check_table_availability", <<Statement("select", "bookings")>>, TRUE>>,
     <<"create_booking", <<Statement("dml", "bookings")>>, TRUE>>,
     <<"apply_migrations", migrations_fallback, TRUE>>,
     <<"create_tables", create_tables_statements, TRUE>>,
     <<"init_database", <<>>, TRUE>>,
     <<"driver", <<Statement("dml", "users")>>, TRUE>>,
     <<"driver", <<Statement("dml", "users")>>, FALSE>>}

NextDriver ==
    \/ \E c \in TopLevelCalls : call_begin(c[1], c[2], c[3])
    \/ call_function
    \/ \E fault \in DriverFaults : connect(fault)
    \/ \E outcome \in {"none", "NotFound", "Unavailable"} : test_table(outcome)
    \/ \E fault \in DriverFaults : get_cursor_enter(fault)
    \/ \E fault \in DriverFaults : get_cursor_block(fault, {})
    \/ \E fault \in DriverFaults : get_cursor_commit(fault)
    \/ get_cursor_rollback
    \/ get_cursor_close
    \/ execute_sql
    \/ \E ret \in BOOLEAN : disconnect(ret)
    \/ unwind
    \/ init_database_return

SpecDriver == Init /\ [][NextDriver]_vars

(* First start of the application: init_database, on every set of relations
   that may exist and with and without a migrations.sql file, with no fault
   of the store; only the migrations file, whose text the sources do not
   hold, may fail or create relations *)
InitSchema ==
    /\ users = {}
    /\ tables = {}
    /\ bookings = {}
    /\ nextUserId = 1
    /\ nextTableId = 1
    /\ nextBookingId = 1
    /\ duration = [i \in {} |-> 0]
    /\ last = NoCall
    /\ pc = [c \in Callers |-> "idle"]
    /\ req = [c \in Callers |-> NoCall]
    /\ now = 0
    /\ stack = <<>>
    /\ conns = 0
    /\ schema \in SUBSET Relations
    /\ migrations \in BOOLEAN
    /\ run = NoRun

NextInit ==
    \/ call_begin("init_database", <<>>, TRUE)
    \/ call_function
    \/ connect("none")
    \/ get_cursor_enter("none")
    \/ \E fault \in DriverFaults, created \in SUBSET Relations :
          /\ stack # <<>>
          /\ Top.at = "gc_block"
          /\ (fault = "raise") => (Head(Top.prog).kind = "script")
          /\ get_cursor_block(fault, created)
    \/ get_cursor_commit("none")
    \/ get_cursor_rollback
    \/ get_cursor_close
    \/ execute_sql
    \/ disconnect(TRUE)
    \/ init_database_return

SpecInit == InitSchema /\ [][NextInit]_vars

----------------------------------------------------------------------------
(* Vocabulary of the properties *)

start(b) == combine(b.booking_date, b.booking_time)

(* The end of a stored booking: its start plus the duration_hours it was
   created with *)
end(b) == start(b) + duration[b.id]

SameTableAndDate(b1, b2) ==
    b1.table_id = b2.table_id /\ b1.booking_date = b2.booking_date

NonCancelled(bks) == {b \in bks : b.status # "cancelled"}

(* The stored bookings before the last call, when that call was a create_booking *)
BookingsBefore ==
    IF last.op = "create_booking" /\ last.outcome = "ok"
    THEN {b \in bookings : b.id # last.id}
    ELSE bookings

(* What check_table_availability gives for the arguments of the last call
   in the store that call started from *)
CheckBefore ==
    check_table_availability(tables, BookingsBefore, last.table_id, last.booking_date,
                             last.booking_time, last.duration_hours)

LastTable == get_table_by_id(tables, last.table_id)

----------------------------------------------------------------------------
(* C1: no two distinct stored non-cancelled bookings of one table and date
   overlap, each taken as [start, start + the duration it was created with).
   The code compares against a fixed 2-hour window, so this fails. *)
C1_NoOverlap ==
    \A b1, b2 \in NonCancelled(bookings) :
        (b1 # b2 /\ SameTableAndDate(b1, b2)) =>
            ~(start(b1) < end(b2) /\ end(b1) > start(b2))

(* C3 as stated: on an existing available table create_booking persists a
   booking exactly when check_table_availability returns true in the store
   the call started from, and otherwise fails with the Conflict error naming
   the table number and the requested date and time.  Stated for the calls
   that meet no store fault, where it already fails: the INSERT is rejected
   when user_id identifies no stored user. *)
C3_CreateIffCheck ==
    (last.op = "create_booking" /\ LastTable # NoTable /\ LastTable.is_available
       /\ last.fault = "none") =>
        /\ (last.outcome = "ok") <=> (CheckBefore.outcome = "true")
        /\ (CheckBefore.outcome = "false") =>
              /\ last.outcome = "Conflict"
              /\ last.named = [table_number |-> LastTable.table_number, table_id |-> 0,
                               booking_date |-> last.booking_date,
                               booking_time |-> last.booking_time]

(* C3 amended: ... persists a booking exactly when the check returns true
   and the INSERT is accepted by the store (the user exists, no store fault);
   a rejected INSERT raises a store error; a false check raises Conflict
   naming the table number and the requested date and time. *)
C3_CreateIffCheckAndInsert ==
    (last.op = "create_booking" /\ LastTable # NoTable /\ LastTable.is_available) =>
        /\ (last.outcome = "ok") <=>
              (CheckBefore.outcome = "true" /\ last.user_id \in Ids(users)
                 /\ last.fault = "none")
        /\ (last.outcome = "ok") => (\E b \in bookings : b.id = last.id)
        /\ (last.outcome = "StoreError") =>
              (CheckBefore.outcome = "true" /\ bookings = BookingsBefore)
        /\ (CheckBefore.outcome = "false") =>
              /\ last.outcome = "Conflict"
              /\ last.named = [table_number |-> LastTable.table_number, table_id |-> 0,
                               booking_date |-> last.booking_date,
                               booking_time |-> last.booking_time]

(* C3 witnesses: a rejected create on a booked slot, after an accepted one *)
C3_Witness ==
    /\ last.op = "create_booking" /\ last.outcome = "Conflict"
    /\ last.duration_hours = 1
    /\ \E b \in bookings : b.table_id = last.table_id /\ duration[b.id] = 3

(* C4: cancelled bookings never block.  For every candidate slot the check
   gives the same result with and without the cancelled bookings in the
   store, and a create_booking whose slot is contested by cancelled bookings
   only, on an available table, for a stored user and without a store fault,
   succeeds. *)
C4_CancelledNeverBlock ==
    /\ \A t \in Ids(tables), d \in Dates, h \in Times, dur \in Durations :
          check_table_availability(tables, bookings, t, d, h, dur).outcome
            = check_table_availability(tables, NonCancelled(bookings), t, d, h, dur).outcome
    /\ (/\ last.op = "create_booking"
        /\ LastTable # NoTable /\ LastTable.is_available
        /\ last.user_id \in Ids(users) /\ last.fault = "none"
        /\ \A b \in BookingsBefore :
              (b.table_id = last.table_id /\ b.booking_date = last.booking_date)
                 => b.status = "cancelled")
         => last.outcome = "ok"

(* C4 witness: a booking was cancelled and the same slot was then booked again *)
C4_Witness ==
    /\ last.op = "create_booking" /\ last.outcome = "ok"
    /\ \E b \in BookingsBefore :
          /\ b.table_id = last.table_id /\ b.booking_date = last.booking_date
          /\ b.booking_time = last.booking_time /\ b.status = "cancelled"

(* C5: a candidate starting exactly at the end of the only non-cancelled
   booking of its table and date (created with any duration d >= 1) is not
   rejected as a conflict.  The code rejects it when d = 1. *)
C5_TouchingAllowed ==
    (/\ last.op = "create_booking"
     /\ \E b \in NonCancelled(BookingsBefore) :
           /\ {x \in NonCancelled(BookingsBefore) :
                  x.table_id = last.table_id /\ x.booking_date = last.booking_date} = {b}
           /\ end(b) = combine(last.booking_date, last.booking_time))
      => last.outcome # "Conflict"

(* C8 as stated: two successive create_booking calls with the same table,
   date, time and duration, the first made with no booking on the table and
   date and successful with any status: the second fails with the Conflict
   error and exactly one booking of that slot is stored.  Stated for second
   calls that pass the same status and meet no store fault, where it already
   fails. *)
C8_IdempotentRejection ==
    [][(/\ last.op = "create_booking" /\ last.outcome = "ok"
        /\ {b \in BookingsBefore : b.table_id = last.table_id
                                   /\ b.booking_date = last.booking_date} = {}
        /\ last'.op = "create_booking" /\ last' # last /\ last'.fault = "none"
        /\ \A b1 \in bookings, b2 \in bookings' :
              (b1.id = last.id /\ b2.id = last'.id) => b2.status = b1.status
        /\ last'.table_id = last.table_id /\ last'.booking_date = last.booking_date
        /\ last'.booking_time = last.booking_time
        /\ last'.duration_hours = last.duration_hours)
       => (/\ last'.outcome = "Conflict"
           /\ Cardinality({b \in bookings' : b.table_id = last.table_id
                               /\ b.booking_date = last.booking_date
                               /\ b.booking_time = last.booking_time}) = 1)]_vars

(* C8 amended: ... the first successful with a status other than
   'cancelled' ... *)
C8_IdempotentRejectionNonCancelled ==
    [][(/\ last.op = "create_booking" /\ last.outcome = "ok"
        /\ \E b \in bookings : b.id = last.id /\ b.status # "cancelled"
        /\ {b \in BookingsBefore : b.table_id = last.table_id
                                   /\ b.booking_date = last.booking_date} = {}
        /\ last'.op = "create_booking" /\ last' # last
        /\ last'.table_id = last.table_id /\ last'.booking_date = last.booking_date
        /\ last'.booking_time = last.booking_time
        /\ last'.duration_hours = last.duration_hours)
       => (/\ last'.outcome = "Conflict"
           /\ bookings' = bookings
           /\ Cardinality({b \in bookings' : b.table_id = last.table_id
                               /\ b.booking_date = last.booking_date
                               /\ b.booking_time = last.booking_time}) = 1)]_vars

(* C8 witness: the second of two identical calls was rejected; the booking of
   the first is the only one of its table and date *)
C8_Witness ==
    /\ last.op = "create_booking" /\ last.outcome = "Conflict"
    /\ \E b \in bookings :
          /\ {x \in bookings : x.table_id = last.table_id
                               /\ x.booking_date = last.booking_date} = {b}
          /\ b.booking_time = last.booking_time
          /\ duration[b.id] = last.duration_hours
          /\ last.duration_hours = 3

(* C10: create_booking is all-or-nothing.  A call that returns has added
   exactly one row, the complete row of its arguments under a fresh id; a
   call that raises NotFound, Unavailable, Conflict or a store error has
   added none. *)
C10_AllOrNothing ==
    [][(last'.op = "create_booking") =>
         IF last'.outcome = "ok"
         THEN \E r \in bookings' :
                 /\ r.id = last'.id /\ r.id \notin Ids(bookings)
                 /\ bookings' = bookings \cup {r}
                 /\ DOMAIN r = {"id", "user_id", "table_id", "booking_date",
                                "booking_time", "guests_count", "status", "notes",
                                "created_at", "updated_at"}
                 /\ r.user_id = last'.user_id /\ r.table_id = last'.table_id
                 /\ r.booking_date = last'.booking_date
                 /\ r.booking_time = last'.booking_time
         ELSE /\ last'.outcome \in {"NotFound", "Unavailable", "Conflict", "StoreError"}
              /\ bookings' = bookings]_vars

(* C10 witness: the INSERT ran for a stored user and the call then raised a
   store error before the commit; nothing was stored *)
C10_Witness ==
    /\ last.op = "create_booking" /\ last.outcome = "StoreError"
    /\ last.fault = "fetch" /\ last.user_id \in Ids(users)
    /\ bookings # {}

(* C2: for an existing available table, check_table_availability returns
   true exactly when the store holds no booking of that table and exact
   date, not cancelled, with existing.start < candidate_start + duration_hours
   and existing.start + 2 hours > candidate_start; the 2-hour window does not
   depend on the duration the existing booking was created with. *)
C2_CheckIffNoConflict ==
    (last.op = "check_table_availability" /\ LastTable # NoTable
       /\ LastTable.is_available) =>
        /\ last.outcome \in {"true", "false"}
        /\ (last.outcome = "true") <=>
              ~ \E b \in bookings :
                    /\ b.table_id = last.table_id
                    /\ b.booking_date = last.booking_date
                    /\ b.status # "cancelled"
                    /\ start(b) < combine(last.booking_date, last.booking_time)
                                    + last.duration_hours
                    /\ start(b) + 2 > combine(last.booking_date, last.booking_time)

(* C2 witness: the check returned false because of a booking created with
   duration 1 that ends where the candidate starts: only the 2-hour window
   makes it a conflict *)
C2_Witness ==
    /\ last.op = "check_table_availability" /\ last.outcome = "false"
    /\ \E b \in bookings :
          /\ NonCancelled({x \in bookings : x.table_id = last.table_id
                              /\ x.booking_date = last.booking_date}) = {b}
          /\ duration[b.id] = 1
          /\ end(b) = combine(last.booking_date, last.booking_time)

(* C6: for a table whose is_available flag is false, check_table_availability
   and create_booking fail with the 'table unavailable' error for every date,
   time and duration, whatever bookings exist; the overlap query is not
   executed and no booking is persisted. *)
C6_UnavailableShortCircuits ==
    [][(/\ last'.op \in {"check_table_availability", "create_booking"}
        /\ \E t \in tables : t.id = last'.table_id /\ ~t.is_available)
       => (/\ last'.outcome = "Unavailable"
           /\ last'.named.table_number = get_table_by_id(tables, last'.table_id).table_number
           /\ ~last'.queried
           /\ bookings' = bookings)]_vars

(* C6 witness: create_booking was refused on an unavailable table that has
   no booking, by a stored user *)
C6_Witness ==
    /\ last.op = "create_booking" /\ last.outcome = "Unavailable"
    /\ users # {}
    /\ ~ \E b \in bookings : b.table_id = last.table_id

(* C7: for a table_id that identifies no stored table, check_table_availability
   and create_booking fail with the 'table not found' error (never Conflict)
   and no booking is persisted, also after delete_table removed the table. *)
C7_TableNotFound ==
    [][(/\ last'.op \in {"check_table_availability", "create_booking"}
        /\ last'.table_id \notin Ids(tables))
       => (/\ last'.outcome = "NotFound"
           /\ last'.named = [NoNamed EXCEPT !.table_id = last'.table_id]
           /\ ~last'.queried
           /\ bookings' = bookings)]_vars

(* C7 witness: create_booking on a table that was created, booked, emptied
   and deleted *)
C7_Witness ==
    /\ last.op = "create_booking" /\ last.outcome = "NotFound"
    /\ last.table_id < nextTableId
    /\ last.table_id \notin Ids(tables)
    /\ nextBookingId > 1 /\ users # {}

(* C9: check-then-act race.  The overlap query of a caller sees only what
   is stored when it runs, and the INSERT of a caller that passed the check
   is decided by the store alone (foreign keys, faults), never by what the
   other caller stored meanwhile: it commits its row even when that row now
   overlaps a stored one. *)
C9_NothingExcludesTheOtherCaller ==
    [][\A c \in Callers :
         /\ (pc[c] = "count" /\ pc'[c] # "count") =>
               ((pc'[c] = "insert") <=>
                  ~ \E b \in NonCancelled(bookings) :
                        /\ b.table_id = req[c].table_id
                        /\ b.booking_date = req[c].booking_date
                        /\ start(b) < combine(req[c].booking_date, req[c].booking_time)
                                        + req[c].duration_hours
                        /\ start(b) + 2 > combine(req[c].booking_date, req[c].booking_time))
         /\ (pc[c] = "insert" /\ pc'[c] = "done" /\ req'[c].fault = "none"
               /\ req[c].user_id \in Ids(users) /\ req[c].table_id \in Ids(tables)) =>
               /\ req'[c].outcome = "ok"
               /\ \E r \in bookings' :
                     /\ r.id = req'[c].id /\ r \notin bookings
                     /\ bookings' = bookings \cup {r}
                     /\ r.table_id = req[c].table_id
                     /\ r.booking_date = req[c].booking_date
                     /\ r.booking_time = req[c].booking_time]_vars

(* C9 witness: both callers asked for the same table, date and time, both
   calls returned a booking, and the store holds the two overlapping
   non-cancelled rows *)
C9_Witness ==
    /\ pc["c1"] = "done" /\ pc["c2"] = "done"
    /\ req["c1"].outcome = "ok" /\ req["c2"].outcome = "ok"
    /\ req["c1"].table_id = req["c2"].table_id
    /\ req["c1"].booking_date = req["c2"].booking_date
    /\ req["c1"].booking_time = req["c2"].booking_time
    /\ \E b1, b2 \in NonCancelled(bookings) :
          /\ b1.id = req["c1"].id /\ b2.id = req["c2"].id /\ b1 # b2
          /\ SameTableAndDate(b1, b2) /\ b1.booking_time = b2.booking_time
          /\ start(b1) < end(b2) /\ end(b1) > start(b2)

(* r is s without its leading and trailing whitespace *)
IsTrimOf(r, s) ==
    /\ r = <<>> \/ (~IsSpace(r[1]) /\ ~IsSpace(r[Len(r)]))
    /\ \E i \in 0..Len(s) :
          /\ i + Len(r) <= Len(s)
          /\ \A k \in 1..Len(s) :
                IF k > i /\ k <= i + Len(r) THEN s[k] = r[k - i] ELSE IsSpace(s[k])

(* stored is what the notes a caller gave are normalized to: the empty
   string for None and for a value that is not a string, the trimmed string
   for a string *)
IsNormalizedNotes(stored, given) ==
    IF given.kind = "str" THEN IsTrimOf(stored, given.text) ELSE stored = <<>>

(* C11: a successful create_booking leaves users, tables and every stored
   booking row unchanged, and adds exactly one row, under an id no stored
   row has, holding the given user_id, table_id, date, time, guests_count
   and status and the normalized notes. *)
C11_CreateFrame ==
    [][(last'.op = "create_booking" /\ last'.outcome = "ok") =>
         /\ users' = users /\ tables' = tables
         /\ bookings \subseteq bookings'
         /\ \E r \in bookings' :
               /\ bookings' = bookings \cup {r}
               /\ r.id \notin Ids(bookings) /\ r.id = last'.id
               /\ r.user_id = last'.user_id /\ r.table_id = last'.table_id
               /\ r.booking_date = last'.booking_date
               /\ r.booking_time = last'.booking_time
               /\ r.guests_count = last'.guests_count
               /\ r.status = last'.status
               /\ IsNormalizedNotes(r.notes, last'.notes)]_vars

(* C11 witness: a second booking was created with status 'vip', no guests
   and notes to trim, next to a stored one *)
C11_Witness ==
    /\ last.op = "create_booking" /\ last.outcome = "ok"
    /\ last.status = "vip" /\ last.guests_count = 0
    /\ last.notes = NotesStr(<<" ", "a", " ">>)
    /\ Cardinality(bookings) = 2

(* a stored notes value that is a string, not null *)
IsString(v) == v \in Seq({" ", "\t", "\n", "a"})

(* C12: notes are never null.  Every stored booking's notes is a string;
   after a successful create_booking the stored notes and the notes of the
   returned Booking are the normalized notes given (empty for None and for
   a value that is not a string, trimmed for a string), and so are the
   stored notes after an update_booking whose update set includes notes. *)
C12_NotesNeverNull ==
    /\ \A b \in bookings : IsString(b.notes)
    /\ (last.op = "create_booking" /\ last.outcome = "ok") =>
          /\ IsString(last.returned.notes)
          /\ IsNormalizedNotes(last.returned.notes, last.notes)
          /\ \A b \in bookings : b.id = last.id => b.notes = last.returned.notes
    /\ (last.op = "update_booking" /\ last.outcome = "True" /\ "notes" \in last.keys) =>
          \A b \in bookings : b.id = last.id => IsNormalizedNotes(b.notes, last.notes)

(* C12 witness: an update with notes=None emptied the notes of a booking
   created with notes to trim *)
C12_Witness ==
    /\ last.op = "update_booking" /\ last.outcome = "True"
    /\ last.keys = {"notes"} /\ last.notes = NotesNone
    /\ last.before.notes = <<"a">>
    /\ \E b \in bookings : b.id = last.id /\ b.notes = <<>>

(* C14: status transitions are unrestricted.  For a stored booking in any
   status and any s2 of pending, confirmed, cancelled, completed,
   update_booking(status=s2) returns True and the stored row is the row it
   was with status s2. *)
C14_StatusTransitionsUnrestricted ==
    [][(/\ last'.op = "update_booking" /\ last'.keys = {"status"}
        /\ last'.status \in BookingStatuses
        /\ last'.id \in Ids(bookings))
       => (/\ last'.outcome = "True"
           /\ \E b \in bookings :
                 /\ b.id = last'.id
                 /\ bookings' = (bookings \ {b}) \cup
                       {[b EXCEPT !.status = last'.status, !.updated_at = now]})]_vars

(* C14 witness: a cancelled booking was set to confirmed *)
C14_Witness ==
    /\ last.op = "update_booking" /\ last.outcome = "True"
    /\ last.before.status = "cancelled" /\ last.status = "confirmed"
    /\ \E b \in bookings : b.id = last.id /\ b.status = "confirmed"

(* C15: every stored booking's status is one of pending, confirmed,
   cancelled, completed.  Neither create_booking nor update_booking nor the
   status column (VARCHAR(20), no CHECK) rejects another value, so this
   fails. *)
C15_StatusInEnumeration ==
    \A b \in bookings : b.status \in BookingStatuses

(* C18: every stored booking has guests_count >= 1 and every stored table
   has capacity >= 1.  Neither create_booking nor create_table nor the
   columns (INTEGER NOT NULL, no CHECK) reject a non-positive value, so this
   fails. *)
C18_PositiveQuantities ==
    /\ \A b \in bookings : b.guests_count >= 1
    /\ \A t \in tables : t.capacity >= 1

(* C13: update_booking never runs the admission check.  An update of a
   stored booking that sets table_id, booking_date or booking_time returns
   True and stores the new value whenever the store accepts the row (its
   table_id identifies a stored table), whatever other bookings hold the new
   slot and whether or not the target table is available. *)
C13_UpdateWithoutAdmission ==
    [][(/\ last'.op = "update_booking"
        /\ last'.keys \in {{"table_id"}, {"booking_date"}, {"booking_time"}}
        /\ last'.id \in Ids(bookings)
        /\ ("table_id" \in last'.keys) => last'.table_id \in Ids(tables))
       => (/\ last'.outcome = "True"
           /\ \E b \in bookings :
                 /\ b.id = last'.id
                 /\ bookings' = (bookings \ {b}) \cup
                       {IF "table_id" \in last'.keys
                          THEN [b EXCEPT !.table_id = last'.table_id, !.updated_at = now]
                        ELSE IF "booking_date" \in last'.keys
                          THEN [b EXCEPT !.booking_date = last'.booking_date,
                                         !.updated_at = now]
                        ELSE [b EXCEPT !.booking_time = last'.booking_time,
                                       !.updated_at = now]})]_vars

(* C13 witness: an update moved a booking to an unavailable table, onto the
   date and time of another non-cancelled booking of that table *)
C13_Witness ==
    /\ last.op = "update_booking" /\ last.outcome = "True"
    /\ last.keys = {"table_id"} /\ last.before.table_id # last.table_id
    /\ ~get_table_by_id(tables, last.table_id).is_available
    /\ \E b1, b2 \in NonCancelled(bookings) :
          /\ b1.id = last.id /\ b2.id # last.id
          /\ b1.table_id = last.table_id /\ SameTableAndDate(b1, b2)
          /\ b1.booking_time = b2.booking_time
          /\ start(b1) < end(b2) /\ end(b1) > start(b2)

(* The last call deletes a user or a table that a stored booking references *)
DeletesReferenced(call, bks) ==
    \/ call.op = "delete_user" /\ \E b \in bks : b.user_id = call.user_id
    \/ call.op = "delete_table" /\ \E b \in bks : b.table_id = call.table_id

(* C16 as stated: delete_user and delete_table on a row that a stored
   booking references return True and remove the row, and the bookings stay.
   The foreign keys of the bookings relation reject the DELETE, so this
   fails. *)
C16_DeleteUnconditional ==
    [][DeletesReferenced(last', bookings) =>
         /\ last'.outcome = "True"
         /\ bookings' = bookings
         /\ last'.op = "delete_user" => last'.user_id \notin Ids(users')
         /\ last'.op = "delete_table" => last'.table_id \notin Ids(tables')]_vars

(* C16 amended: delete_user and delete_table on a row that a stored booking
   references raise the store's error and leave users, tables and bookings
   unchanged; on a stored row that no booking references they return True
   and remove that row only; so every stored booking's user_id and table_id
   identify stored rows. *)
C16_DeleteRejectedWhenReferenced ==
    [][/\ DeletesReferenced(last', bookings) =>
             (last'.outcome = "StoreError" /\ UNCHANGED <<users, tables, bookings>>)
       /\ (/\ last'.op = "delete_user" /\ last'.user_id \in Ids(users)
           /\ ~DeletesReferenced(last', bookings)) =>
             /\ last'.outcome = "True"
             /\ users' = {u \in users : u.id # last'.user_id}
             /\ UNCHANGED <<tables, bookings>>
       /\ (/\ last'.op = "delete_table" /\ last'.table_id \in Ids(tables)
           /\ ~DeletesReferenced(last', bookings)) =>
             /\ last'.outcome = "True"
             /\ tables' = {t \in tables : t.id # last'.table_id}
             /\ UNCHANGED <<users, bookings>>
       /\ \A b \in bookings' :
             b.user_id \in Ids(users') /\ b.table_id \in Ids(tables')]_vars

(* C16 witness: delete_user was refused for a user with a stored booking *)
C16_Witness ==
    /\ last.op = "delete_user" /\ last.outcome = "StoreError"
    /\ last.user_id \in Ids(users)
    /\ \E b \in bookings : b.user_id = last.user_id

(* C17: a booking is created only for a stored user and a stored table.
   create_booking with a user_id that identifies no stored user fails and
   persists nothing, and after a successful create_booking the new row's
   user_id and table_id identify stored rows. *)
C17_CreateOnlyForStoredUserAndTable ==
    [][(last'.op = "create_booking") =>
         /\ (last'.user_id \notin Ids(users) \/ last'.table_id \notin Ids(tables)) =>
               (last'.outcome \in {"StoreError", "NotFound"} /\ bookings' = bookings)
         /\ (last'.outcome = "ok") =>
               \E b \in bookings' \ bookings :
                  /\ b.id = last'.id
                  /\ b.user_id = last'.user_id /\ b.user_id \in Ids(users')
                  /\ b.table_id = last'.table_id /\ b.table_id \in Ids(tables')]_vars

(* C17 witness: create_booking for an unknown user on an existing, available
   table without any booking was refused by the store, with no store fault *)
C17_Witness ==
    /\ last.op = "create_booking" /\ last.outcome = "StoreError"
    /\ last.fault = "none" /\ last.user_id \notin Ids(users)
    /\ LastTable # NoTable /\ LastTable.is_available
    /\ CheckBefore.outcome = "true"
    /\ bookings = {}

(* C19: bookings are scoped to one calendar date.  check_table_availability
   for a candidate on date D' gives what it gives in the store without the
   bookings of every other date, and returns false only when a stored
   non-cancelled booking of the table has the candidate's date, also when a
   booking of another date runs past midnight into the candidate or the
   candidate runs past midnight into it. *)
C19_ScopedToOneDate ==
    (last.op = "check_table_availability") =>
        /\ last.outcome =
              check_table_availability(tables,
                  {b \in bookings : b.booking_date = last.booking_date},
                  last.table_id, last.booking_date, last.booking_time,
                  last.duration_hours).outcome
        /\ (last.outcome = "false") =>
              \E b \in NonCancelled(bookings) :
                  b.table_id = last.table_id /\ b.booking_date = last.booking_date

(* C19 witness: the check returned true for 00:00 of a date with no booking
   while a non-cancelled booking of the same table, made at 23:00 of the date
   before, runs until after that time *)
C19_Witness ==
    /\ last.op = "check_table_availability" /\ last.outcome = "true"
    /\ last.booking_time = 0
    /\ ~ \E b \in bookings : b.booking_date = last.booking_date
    /\ \E b \in NonCancelled(bookings) :
          /\ b.table_id = last.table_id
          /\ b.booking_date + 1 = last.booking_date /\ b.booking_time = 23
          /\ start(b) < combine(last.booking_date, last.booking_time) + last.duration_hours
          /\ end(b) > combine(last.booking_date, last.booking_time)

(* The call would give a second stored user the same username or email, or
   a second stored table the same table_number *)
WouldDuplicate(call, usrs, tbls) ==
    \/ /\ call.op = "create_user"
       /\ \E u \in usrs : u.username = call.username \/ u.email = call.email
    \/ /\ call.op = "update_user" /\ call.user_id \in Ids(usrs)
       /\ \E o \in usrs :
             /\ o.id # call.user_id
             /\ \/ "username" \in call.keys /\ o.username = call.username
                \/ "email" \in call.keys /\ o.email = call.email
    \/ /\ call.op = "create_table"
       /\ \E t \in tbls : t.table_number = call.table_number
    \/ /\ call.op = "update_table" /\ call.table_id \in Ids(tbls)
       /\ "table_number" \in call.keys
       /\ \E o \in tbls : o.id # call.table_id /\ o.table_number = call.table_number

(* C20: uniqueness holds in every reachable state.  After any create_user,
   update_user, create_table or update_table no two stored users share a
   username or an email and no two stored tables share a table_number, and
   a call that would introduce a duplicate raises the store's error and
   leaves the store unchanged. *)
C20_Uniqueness ==
    [][/\ \A u1, u2 \in users' :
             (u1.username = u2.username \/ u1.email = u2.email) => u1 = u2
       /\ \A t1, t2 \in tables' : (t1.table_number = t2.table_number) => t1 = t2
       /\ WouldDuplicate(last', users, tables) =>
             (last'.outcome = "StoreError" /\ UNCHANGED <<users, tables, bookings>>)]_vars

(* C20 witness: with two users stored, an update that would give one the
   email of the other was refused *)
C20_Witness ==
    /\ last.op = "update_user" /\ last.outcome = "StoreError"
    /\ last.keys = {"email"}
    /\ \E u1, u2 \in users :
          u1.id = last.user_id /\ u2.id # last.user_id /\ u2.email = last.email

(* C25: when every booking is created by sequential create_booking calls
   with the default duration of 2 hours and none is updated, no two stored
   non-cancelled bookings of one table and date have overlapping
   [start, start + 2h) intervals, also after bookings were deleted. *)
C25_NoOverlapWithDefaultDuration ==
    \A b1, b2 \in NonCancelled(bookings) :
        (b1 # b2 /\ SameTableAndDate(b1, b2)) =>
            ~(start(b1) < start(b2) + 2 /\ start(b1) + 2 > start(b2))

(* C25 witness: a booking was created that starts where the other
   non-cancelled booking of its table and date ends *)
C25_Witness ==
    /\ last.op = "create_booking" /\ last.outcome = "ok"
    /\ \E b1, b2 \in NonCancelled(bookings) :
          /\ b2.id = last.id /\ b1 # b2 /\ SameTableAndDate(b1, b2)
          /\ start(b2) = start(b1) + 2

(* C26: no sequence of create_booking calls with the default duration and
   update_booking calls that set the status only stores two non-cancelled
   bookings of one table and date that overlap, each taken until its start
   plus the duration it was created with.  Setting a cancelled booking back
   to a non-cancelled status after its slot was booked again does, so this
   fails. *)
C26_NoOverlapWithStatusUpdates ==
    \A b1, b2 \in NonCancelled(bookings) :
        (b1.id < b2.id /\ SameTableAndDate(b1, b2)) =>
            (end(b1) <= start(b2) \/ end(b2) <= start(b1))

(* C28: check_table_availability is read-only.  Whether it returns true or
   false or raises, users, tables and bookings are what they were before the
   call, and a second call with the same arguments right after the first,
   with no write between them, ends as the first did. *)
C28_CheckIsReadOnly ==
    [][/\ (last'.op = "check_table_availability") =>
             /\ last'.outcome \in {"true", "false", "NotFound", "Unavailable"}
             /\ UNCHANGED <<users, tables, bookings>>
       /\ (/\ last.op = "check_table_availability"
           /\ last'.op = "check_table_availability"
           /\ last'.table_id = last.table_id
           /\ last'.booking_date = last.booking_date
           /\ last'.booking_time = last.booking_time
           /\ last'.duration_hours = last.duration_hours) =>
             last'.outcome = last.outcome]_vars

(* C28 witness: the check returned false on a table that has both a booking
   it counts and others stored *)
C28_Witness ==
    /\ last.op = "check_table_availability" /\ last.outcome = "false"
    /\ Cardinality(bookings) = 2
    /\ \E b \in bookings : b.table_id # last.table_id

(* C29: delete_booking frees the slot.  A delete_booking(b) that returns
   True removes exactly the row b, so that check_table_availability gives
   for every candidate what it gives in the store without b; a
   delete_booking of an id that is not stored (a second delete of b) returns
   False and changes nothing. *)
C29_DeleteFreesTheSlot ==
    [][(last'.op = "delete_booking") =>
         /\ UNCHANGED <<users, tables>>
         /\ (last'.outcome = "True") <=> (last'.id \in Ids(bookings))
         /\ (last'.outcome = "True") =>
               \E b \in bookings :
                  /\ b.id = last'.id
                  /\ Ids(bookings') = Ids(bookings) \ {b.id}
                  /\ \A t \in 1..MaxTables, d \in Dates, h \in Times, dur \in Durations :
                        check_table_availability(tables', bookings', t, d, h, dur)
                          = check_table_availability(tables, bookings \ {b}, t, d, h, dur)
         /\ (last'.outcome # "True") =>
               (last'.outcome = "False" /\ bookings' = bookings)]_vars

(* C29 witness: the deleted booking was the only one in the way of a
   candidate at its time, next to another booking that stays *)
C29_Witness ==
    /\ last.op = "delete_booking" /\ last.outcome = "True"
    /\ last.before.status # "cancelled"
    /\ bookings # {}
    /\ check_table_availability(tables, bookings \cup {last.before}, last.before.table_id,
          last.before.booking_date, last.before.booking_time, 1).outcome = "false"
    /\ check_table_availability(tables, bookings, last.before.table_id,
          last.before.booking_date, last.before.booking_time, 1).outcome = "true"

(* The rows that an update_user / update_table / update_booking call names *)
TargetRows(call, usrs, tbls, bks) ==
    IF call.op = "update_user" THEN {u \in usrs : u.id = call.user_id}
    ELSE IF call.op = "update_table" THEN {t \in tbls : t.id = call.table_id}
    ELSE {b \in bks : b.id = call.id}

IsUpdate(call) == call.op \in {"update_user", "update_table", "update_booking"}

ProtectedColumns == {"id", "created_at", "updated_at"}

(* C22: every update_user / update_table / update_booking call that matches
   a row and has a non-empty update set, and that the store does not reject,
   sets the row's updated_at to the time of the call and leaves its id and
   created_at as they were, whatever values the keyword arguments carry for
   id, created_at and updated_at.  (A step that moves the clock is not a
   call.) *)
C22_UpdateStamps ==
    [][(/\ IsUpdate(last') /\ now' = now
        /\ last'.keys \ ProtectedColumns # {}
        /\ last'.outcome # "StoreError"
        /\ TargetRows(last', users, tables, bookings) # {})
       => (/\ last'.outcome = "True"
           /\ \A r \in TargetRows(last', users, tables, bookings) :
                 \E r2 \in TargetRows(last', users', tables', bookings') :
                    /\ r2.id = r.id
                    /\ r2.created_at = r.created_at
                    /\ r2.updated_at = now)]_vars

(* C22 witness: an update_booking that passed values for id, created_at and
   updated_at next to a status left a row that was created earlier and is
   stamped with the time of the call *)
C22_Witness ==
    /\ last.op = "update_booking" /\ last.outcome = "True"
    /\ last.keys = {"status", "id", "created_at", "updated_at"}
    /\ \E b \in bookings :
          /\ b.id = last.id /\ b.status = "confirmed"
          /\ b.created_at < b.updated_at /\ b.updated_at = now

(* C30 as stated: update_user, update_table and update_booking with an empty
   update set return False and leave the store unchanged; with a non-empty
   update set they return True exactly when a row with the id is stored, and
   return False with the store unchanged when none is.  An UPDATE that the
   store rejects raises instead, so this fails. *)
C30_UpdateReturns ==
    [][IsUpdate(last') =>
         IF last'.keys \ ProtectedColumns = {}
         THEN last'.outcome = "False" /\ UNCHANGED <<users, tables, bookings>>
         ELSE /\ (last'.outcome = "True") <=>
                    (TargetRows(last', users, tables, bookings) # {})
              /\ (TargetRows(last', users, tables, bookings) = {}) =>
                    (last'.outcome = "False" /\ UNCHANGED <<users, tables, bookings>>)]_vars

(* C30 amended: ... with a non-empty update set they return True exactly
   when a row with the id is stored and the store accepts the UPDATE; when
   the UPDATE would duplicate a unique column or reference a missing row the
   call raises the store's error and the store is unchanged ... *)
C30_UpdateReturnsUnlessRejected ==
    [][IsUpdate(last') =>
         IF last'.keys \ ProtectedColumns = {}
         THEN last'.outcome = "False" /\ UNCHANGED <<users, tables, bookings>>
         ELSE /\ last'.outcome \in {"True", "False", "StoreError"}
              /\ (last'.outcome = "True") =>
                    (TargetRows(last', users, tables, bookings) # {})
              /\ (last'.outcome = "StoreError") =>
                    /\ TargetRows(last', users, tables, bookings) # {}
                    /\ UNCHANGED <<users, tables, bookings>>
                    /\ \/ WouldDuplicate(last', users, tables)
                       \/ /\ last'.op = "update_booking" /\ "table_id" \in last'.keys
                          /\ last'.table_id \notin Ids(tables)
              /\ (last'.outcome = "False") =>
                    /\ TargetRows(last', users, tables, bookings) = {}
                    /\ UNCHANGED <<users, tables, bookings>>]_vars

(* C30 witness: an update that named only id, created_at or updated_at
   returned False on a stored row, after the clock moved on *)
C30_Witness ==
    /\ IsUpdate(last) /\ last.outcome = "False"
    /\ last.keys # {} /\ last.keys \subseteq ProtectedColumns
    /\ TargetRows(last, users, tables, bookings) # {}
    /\ \A r \in TargetRows(last, users, tables, bookings) : r.updated_at < now

(* C27: with create_booking interleaved with update_table(is_available =
   False) on the same table, no booking is inserted for a table whose flag is
   false when the INSERT runs.  The flag is read in the check, on a
   connection of its own, and the INSERT runs later without reading it, so
   this fails. *)
C27_NoInsertOnUnavailableTable ==
    [][\A c \in Callers :
         (pc[c] = "insert" /\ pc'[c] = "done" /\ req'[c].outcome = "ok") =>
             get_table_by_id(tables, req[c].table_id).is_available]_vars

----------------------------------------------------------------------------
(* The functions of backend.py among the top-level calls *)
BackendOperations ==
    {"crud", "get_table_by_id", "check_table_availability", "create_booking",
     "apply_migrations", "create_tables"}

(* C21: once a call of a backend operation has ended, whether it returned
   or raised (NotFound, Unavailable, Conflict, a connection error or an
   error of the store), no store connection that it or a function it called
   opened is still open *)
C21_ConnectionsClosed ==
    (stack = <<>> /\ run.fn \in BackendOperations) => conns = 0

(* create_booking has ended with Unavailable, raised by the check it called
   while that check held a connection of its own *)
C21_Witness ==
    /\ stack = <<>>
    /\ run.fn = "create_booking"
    /\ run.state = "raised"
    /\ run.exc = "Unavailable"
    /\ conns = 0

(* C24: get_cursor connects a driver that is not connected before it opens
   the cursor; when it exits the cursor is closed; if the block finished
   normally and commit is true, commit was issued: what the block wrote is
   persisted, or the store refused the commit, nothing is persisted and the
   commit's error is raised; if the block raised, nothing it wrote is
   persisted or pending and the exception raised is the block's own *)
C24_GetCursorProtocol ==
    [][(stack # <<>> /\ stack' # <<>> /\ Len(stack') = Len(stack)) =>
         LET f == Top
             g == stack'[Len(stack')]
         IN  /\ (f.at = "gc_enter" /\ g.at = "gc_block") =>
                    (g.connection = "open" /\ g.cursor = "open")
             /\ (f.at = "gc_close" /\ g.at # "gc_close") =>
                    /\ g.cursor = "closed"
                    /\ (f.raised = "none" /\ f.commit) =>
                          \/ g.persisted = f.wrote /\ g.written = {} /\ g.exc = "none"
                          \/ g.persisted = {} /\ g.written = {} /\ g.exc = "CommitError"
                    /\ (f.raised # "none") =>
                          (g.persisted = {} /\ g.written = {} /\ g.exc = f.raised)]_vars

(* A driver used without connect() is connected, its block wrote and then
   raised, and get_cursor has exited with the cursor closed *)
C24_Witness ==
    /\ stack # <<>>
    /\ Top.fn = "driver"
    /\ Top.at = "finally"
    /\ Top.connection = "open"
    /\ Top.cursor = "closed"
    /\ Top.raised = "StatementError"
    /\ Top.wrote # {}
    /\ Top.persisted = {}

(* C23: init_database, started on a database with none of the three
   relations and with no migrations.sql file, returns True and leaves the
   three relations created *)
C23_FirstInitializationSucceeds ==
    (stack = <<>> /\ run.fn = "init_database" /\ run.state = "returned"
       /\ run.schema = {} /\ ~run.migrations)
        => (run.ret /\ schema = Relations)

====
